---- MODULE Spec2Model ----
(***************************************************************************)
(* Model of the gml_st "transform map for CPU" pass                        *)
(* (gml_st/transforms/cpu_tiling/transform_map_for_cpu.cc).                *)
(*                                                                         *)
(* The function body is a data-flow graph over the nodes 1..NumNodes, in   *)
(* topological order (a user always has a greater index than its           *)
(* producer).  TileMapPattern::matchAndRewrite and findRootMap and         *)
(* TransformMapForCpuPass::runOnOperation are translated from the source;  *)
(* the tiling-and-fusion driver, the peeling driver, the scalarization of  *)
(* the peeled remainder and the greedy rewriter are collaborators whose    *)
(* code is outside the file and are modelled from their contracts.         *)
(***************************************************************************)
EXTENDS Integers, Sequences, FiniteSets, TLC

\* ---------------------------------------------------------------- bounds
\* Number of operations in the function body.
NumNodes == 3
\* Longest use list of one operation (one entry per use of its result).
MaxUsers == 2
\* Largest rank of a map in the pass specification.
MaxRank == 1
\* Largest extent of the innermost dimension in the pass specification.
MaxExtent == 1
\* Largest configured innerDimTileSize in the pass specification.
MaxTile == 2
\* Largest iteration bound of the greedy rewriter.
MaxIterCap == 2
\* Number of times the pass is run on the same function.
MaxRuns == 2
\* Bounds of the single-map specification that exercises tiling and peeling.
PeelMaxRank == 3
PeelMaxExtent == 20
PeelMaxTile == 8

Nodes == 1..NumNodes

\* ----------------------------------------------------------------- state
VARIABLES
  kind,          \* kind[n]: the operation name of node n
  degenerate,    \* degenerate[n]: isDegenerateReshapeOp(n), read for reshapes
  users,         \* users[n]: curOp->getUsers(), one entry per use
  labels,        \* labels[n]: the labels node n carries
  parent,        \* parent[n]: the kind of n's parent operation
  rank,          \* rank[n]: getNumLoops() of n
  extent,        \* extent[n]: extent of n's innermost dimension
  loops,         \* the loops the pattern has created
  driver,        \* driver[n]: what the collaborators answer for root n
  tileSize,      \* TransformMapForCpuPass::tileSize / innerDimTileSize
  maxIterations, \* iteration bound of the greedy rewriter
  pc,            \* position of the pass driver
  runs,          \* how many times the pass is run on the function
  run,           \* number of the current run of the pass
  iteration,     \* iteration of the greedy rewriter
  worklist,      \* map nodes the rewriter has still to visit
  changed,       \* the rewriter saw a pattern succeed in this iteration
  rewrote,       \* the graph was modified during the current run
  passFailed,    \* signalPassFailure() was called in the last finished run
  last,          \* the last application of the pattern
  walk,          \* the nodes the last findRootMap call has visited
  input,         \* the labels of the function before the first run
  out1           \* the graph as the first run left it, and whether it failed

vars == <<kind, degenerate, users, labels, parent, rank, extent, loops, driver,
          tileSize, maxIterations, pc, runs, run, iteration, worklist,
          changed, rewrote, passFailed, last, walk, input, out1>>

kTransformedLabel == "transformed"
kPerfectlyTiledLoopLabel == "perfectly-tiled-loop"

OpNames == {"map", "broadcast", "fill", "collapse_shape", "expand_shape", "other"}

\* The program graph: everything a rewrite may modify.
Graph == [kind |-> kind, users |-> users, labels |-> labels,
          parent |-> parent, loops |-> loops]

\* --------------------------------------------------------------- helpers
isMap(n) == kind[n] = "map"

MapNodes == {n \in Nodes : isMap(n)}

hasLabel(n, l) == l \in labels[n]

\* Number of distinct operations that use the result of n.
NumUserNodes(n) == Cardinality({users[n][i] : i \in 1..Len(users[n])})

\* fuseFilterFn of matchAndRewrite.
fuseFilterFn(n) ==
  IF kind[n] = "collapse_shape" THEN degenerate[n]
  ELSE IF kind[n] = "expand_shape" THEN degenerate[n]
  ELSE kind[n] \in {"broadcast", "fill", "map"}

\* Mutant of inLoop: the parent check of line 51 left out.
inLoop_NeverNested(n) == FALSE

\* isa<scf::ForallOp, scf::ForOp>(op->getParentOp()), line 51.
inLoop(n) == parent[n] \in {"forall", "for"}

\* Mutant of hasOneUser: the walk goes on whenever there is a user.
hasOneUser_AnyUser(n) == Len(users[n]) >= 1

\* users.size() == 1 in findRootMap: the use list holds exactly one use.
hasOneUser(n) == Len(users[n]) = 1

\* Mutant of nextRootMap: rootMap follows curOp without the dyn_cast.
nextRootMap_NoCast(cur, root) == cur

\* "if (auto curMap = dyn_cast<linalg::MapOp>(curOp)) rootMap = curMap".
nextRootMap(cur, root) == IF isMap(cur) THEN cur ELSE root

\* Mutant of nextOp: curOp is not advanced to its user.
nextOp_Stay(cur) == cur

\* "curOp = users[0]", line 104.
nextOp(cur) == users[cur][1]

\* The unrolling of the loop is cut off after more iterations than a walk
\* that visits every node once can make.
WalkCutoff == NumNodes + 2

\* The loop of findRootMap, started with curOp = cur and rootMap = root;
\* path is the sequence of nodes curOp has held.
RECURSIVE Walk(_, _, _)
Walk(cur, root, path) ==
  IF ~fuseFilterFn(cur) THEN [root |-> root, path |-> path]
  ELSE IF ~hasOneUser(cur) THEN [root |-> root, path |-> path]
  ELSE IF Len(path) >= WalkCutoff THEN [root |-> root, path |-> path]
  ELSE LET nxt == nextOp(cur)
       IN  Walk(nxt, nextRootMap(nxt, root), Append(path, nxt))

findRootMap(op) == Walk(op, op, <<op>>).root

findRootPath(op) == Walk(op, op, <<op>>).path

\* Mutant of rootIsTransformed: the label check of line 67 left out.
rootIsTransformed_Unchecked(op) == FALSE

\* Line 67: the root found for op carries the transformed label.
rootIsTransformed(op) == hasLabel(findRootMap(op), kTransformedLabel)

\* Mutant of TileSizes: the vector is given at least one entry, so a rank-0
\* map gets a tile size too.
TileSizes_AtLeastOne(numLoops, innerDimTileSize) ==
  LET len == IF numLoops = 0 THEN 1 ELSE numLoops
  IN  [i \in 1..len |-> IF i = len THEN innerDimTileSize ELSE 1]

\* Mutant of TileSizes: the vector is built without its fill value of 1, so
\* every entry but the last is 0.
TileSizes_NoFill(numLoops, innerDimTileSize) ==
  [i \in 1..numLoops |-> IF i = numLoops THEN innerDimTileSize ELSE 0]

\* Mutant of TileSizes: tiles.front() is replaced instead of tiles.back().
TileSizes_Front(numLoops, innerDimTileSize) ==
  [i \in 1..numLoops |-> IF i = 1 THEN innerDimTileSize ELSE 1]

\* The tile-size computation function handed to the tiling driver: numLoops
\* entries equal to 1, the last one replaced by innerDimTileSize.
TileSizes(numLoops, innerDimTileSize) ==
  [i \in 1..numLoops |-> IF i = numLoops THEN innerDimTileSize ELSE 1]

\* ------------------------------------------------- collaborators (contracts)

\* n reaches root through fusible producers that have a single use each.
RECURSIVE FusesInto(_, _)
FusesInto(n, root) ==
  /\ n # root
  /\ fuseFilterFn(n)
  /\ hasOneUser(n)
  /\ \/ users[n][1] = root
     \/ FusesInto(users[n][1], root)

\* The operations the tiling-and-fusion driver moves into the loop of root.
FusionCluster(root) == {root} \cup {n \in Nodes : FusesInto(n, root)}

\* Peeling of a loop over [0, n) with the given step: the main loop keeps the
\* complete tiles, the tail loop the rest.
PeelSplit(n, step) == n - (n % step)

MainLoop(root, n, step) ==
  [root |-> root, part |-> "main", op |-> "forall", lo |-> 0,
   hi |-> PeelSplit(n, step), step |-> step, labels |-> {}]

TailLoops(root, n, step) ==
  IF n % step = 0 THEN {}
  ELSE {[root |-> root, part |-> "tail", op |-> "forall",
         lo |-> PeelSplit(n, step), hi |-> n, step |-> step, labels |-> {}]}

\* tilePeeledOpsToScalars on one tail loop: re-tiled to size 1 with scf.for.
Scalarized(l) == [l EXCEPT !.op = "for", !.step = 1]

\* What the collaborators may answer for root when its inner dimension is
\* tiled by step: fixed once asked (the drivers are functions of the node).
\* A rank-0 map has no loop to tile and is left untiled.
DriverAnswers(root, tiles) ==
  IF driver[root] # "unknown" THEN {driver[root]}
  ELSE IF Len(tiles) = 0 THEN {"tile_fails"}
  ELSE IF extent[root] % tiles[Len(tiles)] = 0 THEN {"ok", "tile_fails"}
  ELSE {"ok", "tile_fails", "scalarize_fails"}

\* --------------------------------------------------------- rewrite pattern
\* Mutant of RewrittenLoops: the tiled loop is labelled and returned without
\* peeling, so its last tile may be partial.
RewrittenLoops_NoPeel(root, tiles, scalarOk) ==
  LET step == tiles[Len(tiles)]
      main == MainLoop(root, extent[root], step)
  IN {[main EXCEPT !.labels = {kPerfectlyTiledLoopLabel},
                   !.hi = extent[root]]}

\* Lines 80-89 once tiling has succeeded: the loops that stand for root after
\* peelAllLoops, setLabel(tiledLoop->loop, kPerfectlyTiledLoopLabel) and
\* tilePeeledOpsToScalars, which re-tiles the tail loops unless it fails.
RewrittenLoops(root, tiles, scalarOk) ==
  LET step == tiles[Len(tiles)]
      main == MainLoop(root, extent[root], step)
      tails == TailLoops(root, extent[root], step)
  IN {[main EXCEPT !.labels = {kPerfectlyTiledLoopLabel}]}
       \cup (IF scalarOk THEN {Scalarized(l) : l \in tails} ELSE tails)

Application(op, root, invoked, tiles, result) ==
  [op |-> op, root |-> root, invoked |-> invoked, tiles |-> tiles,
   result |-> result]

NoApplication == Application(0, 0, FALSE, <<>>, "none")

\* Line 49: the candidate carries the transformed label.
RejectLabelled(op) ==
  /\ hasLabel(op, kTransformedLabel)
  /\ last' = Application(op, 0, FALSE, <<>>, "failure")
  /\ UNCHANGED <<labels, parent, loops, driver, rewrote>>

\* Lines 51-54: the candidate's parent is an scf.forall or an scf.for.
RejectNested(op) ==
  /\ ~hasLabel(op, kTransformedLabel)
  /\ inLoop(op)
  /\ last' = Application(op, 0, FALSE, <<>>, "failure")
  /\ UNCHANGED <<labels, parent, loops, driver, rewrote>>

\* Lines 65-67: the root of the fusion cluster carries the transformed label.
RejectRootLabelled(op) ==
  /\ ~hasLabel(op, kTransformedLabel)
  /\ ~inLoop(op)
  /\ rootIsTransformed(op)
  /\ last' = Application(op, findRootMap(op), FALSE, <<>>, "failure")
  /\ UNCHANGED <<labels, parent, loops, driver, rewrote>>

\* Lines 69-89: tile the root found for op and fuse, peel, label the main
\* loop, scalarize the peeled remainder.
Rewrite(op) ==
     LET root == findRootMap(op)
         tiles == TileSizes(rank[root], tileSize)
     IN \E answer \in DriverAnswers(root, tiles) :
          /\ driver' = [driver EXCEPT ![root] = answer]
          /\ IF answer = "tile_fails"
             THEN \* line 82: tileUsingSCFForallOpAndFuseGreedily failed
                  /\ last' = Application(op, root, TRUE, tiles, "failure")
                  /\ UNCHANGED <<labels, parent, loops, rewrote>>
             ELSE LET scalarOk == answer # "scalarize_fails"
                  IN /\ parent' = [n \in Nodes |->
                                     IF n \in FusionCluster(root)
                                     THEN "forall" ELSE parent[n]]
                     /\ labels' = [labels EXCEPT ![root] =
                                     @ \cup {kTransformedLabel}]
                     /\ loops' = loops \cup RewrittenLoops(root, tiles, scalarOk)
                     /\ rewrote' = TRUE
                     \* line 89: the result of tilePeeledOpsToScalars
                     /\ last' = Application(op, root, TRUE, tiles,
                                  IF scalarOk THEN "success" ELSE "failure")

\* Lines 49-89 for a candidate that passes the three checks.
TileRoot(op) ==
  /\ ~hasLabel(op, kTransformedLabel)
  /\ ~inLoop(op)
  /\ ~rootIsTransformed(op)
  /\ Rewrite(op)

\* Mutant of matchAndRewrite: the checks of lines 49-67 left out, every
\* candidate goes straight to the tiling driver.
matchAndRewrite_NoChecks(op) == Rewrite(op)

\* TileMapPattern::matchAndRewrite on the map node op.
matchAndRewrite(op) ==
  \/ RejectLabelled(op)
  \/ RejectNested(op)
  \/ RejectRootLabelled(op)
  \/ TileRoot(op)

\* ------------------------------------------------------------- pass driver
\* runOnOperation, lines 126-133: the greedy rewriter starts on all maps.
StartRun ==
  /\ \/ pc = "idle"
     \/ pc = "done" /\ run < runs
  /\ pc' = "rewrite"
  /\ run' = run + 1
  /\ iteration' = 0
  /\ worklist' = MapNodes
  /\ changed' = FALSE
  /\ rewrote' = FALSE
  /\ passFailed' = FALSE
  /\ last' = NoApplication
  /\ UNCHANGED <<kind, degenerate, users, labels, parent, rank, extent, loops,
                 driver, tileSize, maxIterations, runs, walk, input, out1>>

\* The rewriter applies the pattern to one map of its worklist.
ApplyPattern(op) ==
  /\ pc = "rewrite"
  /\ op \in worklist
  /\ matchAndRewrite(op)
  /\ walk' = IF last'.root = 0 THEN <<>> ELSE findRootPath(op)
  /\ worklist' = worklist \ {op}
  /\ changed' = (changed \/ last'.result = "success")
  /\ UNCHANGED <<kind, degenerate, users, rank, extent, tileSize,
                 maxIterations, pc, runs, run, iteration, passFailed, input,
                 out1>>

\* The rewriter has emptied its worklist after a change and scans again.
NextIteration ==
  /\ pc = "rewrite"
  /\ worklist = {}
  /\ changed
  /\ iteration + 1 < maxIterations
  /\ iteration' = iteration + 1
  /\ worklist' = MapNodes
  /\ changed' = FALSE
  /\ UNCHANGED <<kind, degenerate, users, labels, parent, rank, extent, loops,
                 driver, tileSize, maxIterations, pc, runs, run, rewrote,
                 passFailed, last, walk, input, out1>>

\* applyPatternsAndFoldGreedily returns: success iff the last scan changed
\* nothing, failure when the iteration bound is hit first.
RewriterReturns == pc = "rewrite" /\ worklist = {}
                     /\ (~changed \/ iteration + 1 >= maxIterations)
RewriterFailed == changed

\* Mutant of StripTransformed: the walk visits every operation, not only the
\* maps.
StripTransformed_EveryOp ==
  [n \in Nodes |-> labels[n] \ {kTransformedLabel}]

\* f.walk([](linalg::MapOp op) { removeLabel(op, kTransformedLabel); })
StripTransformed ==
  [n \in Nodes |-> IF isMap(n) THEN labels[n] \ {kTransformedLabel}
                   ELSE labels[n]]

\* The labels the function carries when runOnOperation returns, lines 133-137.
LabelsAtReturn == IF RewriterFailed THEN labels ELSE StripTransformed

\* Mutant of SignalsFailure: the result of the rewriter is ignored.
SignalsFailure_Never == FALSE

\* Whether runOnOperation calls signalPassFailure, lines 133-135.
SignalsFailure == RewriterFailed

\* runOnOperation, lines 133-137, once the rewriter has returned.
FinishRun ==
  /\ RewriterReturns
  /\ pc' = "done"
  /\ passFailed' = SignalsFailure
  /\ labels' = LabelsAtReturn
  /\ out1' = IF run = 1
             THEN [graph |-> [Graph EXCEPT !.labels = LabelsAtReturn],
                   failed |-> SignalsFailure]
             ELSE out1
  /\ UNCHANGED <<kind, degenerate, users, parent, rank, extent, loops, driver,
                 tileSize, maxIterations, runs, run, iteration, worklist,
                 changed, rewrote, last, walk, input>>

\* ---------------------------------------------------------- initial states
\* Use lists in use-list order up to permutation: non-decreasing sequences.
SortedSeqs(S, k) ==
  {s \in UNION {[1..m -> S] : m \in 0..k} :
     \A i \in 1..(Len(s) - 1) : s[i] <= s[i + 1]}

\* The use lists of the nodes n..NumNodes: a user comes after its producer.
RECURSIVE UserListsFrom(_)
UserListsFrom(n) ==
  IF n > NumNodes THEN {<< >>}
  ELSE {<<h>> \o t : h \in SortedSeqs((n + 1)..NumNodes, MaxUsers),
                      t \in UserListsFrom(n + 1)}

UserLists == UserListsFrom(1)

\* Everything but the graph's shape, before the first run.
InitControl ==
  /\ loops = {}
  /\ driver = [n \in Nodes |-> "unknown"]
  /\ pc = "idle"
  /\ run = 0
  /\ iteration = 0
  /\ worklist = {}
  /\ changed = FALSE
  /\ rewrote = FALSE
  /\ passFailed = FALSE
  /\ last = NoApplication
  /\ walk = <<>>
  /\ input = labels
  /\ out1 = [graph |-> Graph, failed |-> FALSE]

\* A function of maps, fills and other operations; maps may carry the
\* transformed label and may sit directly in a loop of an earlier pass.
InitFunction ==
  /\ kind \in [Nodes -> {"map", "fill", "other"}]
  /\ degenerate = [n \in Nodes |-> FALSE]
  /\ users \in UserLists
  /\ labels \in [Nodes -> {{}, {kTransformedLabel}}]
  /\ \A n \in Nodes : ~isMap(n) => labels[n] = {}
  /\ parent \in [Nodes -> {"func", "forall"}]
  /\ \A n \in Nodes : ~isMap(n) => parent[n] = "func"
  /\ \E r \in 0..MaxRank :
       /\ rank = [n \in Nodes |-> r]
       /\ \E e \in (IF r = 0 THEN {0} ELSE 0..MaxExtent) :
            extent = [n \in Nodes |-> e]
  /\ tileSize \in 1..MaxTile
  /\ maxIterations \in 1..MaxIterCap
  /\ InitControl

Init == InitFunction /\ runs = 1

Next ==
  \/ StartRun
  \/ \E op \in Nodes : ApplyPattern(op)
  \/ NextIteration
  \/ FinishRun

\* One run of the pass on a function.
Spec == Init /\ [][Next]_vars

\* The pass run MaxRuns times in a row on the same function.
InitTwice == InitFunction /\ runs = MaxRuns

SpecTwice == InitTwice /\ [][Next]_vars

\* One run of the pass that is not abandoned half way: the rewriter and the
\* pass are sequential code, so a step that can be taken is taken.
SpecFair == Init /\ [][Next]_vars /\ WF_vars(Next)

\* ------------------------------------------------ tiling of one short chain
\* A map, alone or feeding a second map, over a wide range of shapes and
\* tile sizes.
InitPeel ==
  /\ kind \in [Nodes -> {"map", "other"}]
  /\ \A n \in Nodes : (n = 1 => isMap(n)) /\ (n > 2 => ~isMap(n))
  /\ degenerate = [n \in Nodes |-> FALSE]
  /\ users \in UserLists
  /\ \A n \in Nodes : users[n] \in (IF n = 1 THEN {<<>>, <<2>>} ELSE {<<>>})
  /\ labels \in [Nodes -> {{}, {kTransformedLabel}}]
  /\ \A n \in Nodes : ~isMap(n) => labels[n] = {}
  /\ parent \in [Nodes -> {"func", "for"}]
  /\ \A n \in Nodes : ~isMap(n) => parent[n] = "func"
  /\ \E r \in 0..PeelMaxRank :
       /\ rank = [n \in Nodes |-> r]
       /\ \E e \in (IF r = 0 THEN {0} ELSE 0..PeelMaxExtent) :
            extent = [n \in Nodes |-> e]
  /\ tileSize \in 1..PeelMaxTile
  /\ maxIterations \in 1..MaxIterCap
  /\ InitControl
  /\ runs = 1

SpecPeel == InitPeel /\ [][Next]_vars

\* ------------------------------------------------- labels of any operation
\* Maps and fills of rank 1 whose unit attributes are arbitrary: either label
\* may sit on any operation when the pass starts.
InitLabels ==
  /\ kind \in [Nodes -> {"map", "fill"}]
  /\ degenerate = [n \in Nodes |-> FALSE]
  /\ users \in UserLists
  /\ \A n \in Nodes : Len(users[n]) <= 1
  /\ labels \in [Nodes -> SUBSET {kTransformedLabel, kPerfectlyTiledLoopLabel}]
  /\ parent = [n \in Nodes |-> "func"]
  /\ rank = [n \in Nodes |-> 1]
  /\ extent = [n \in Nodes |-> 1]
  /\ tileSize = MaxTile
  /\ maxIterations \in 1..MaxIterCap
  /\ InitControl
  /\ runs = 1

SpecLabels == InitLabels /\ [][Next]_vars

\* ------------------------------------------------------- root finder alone
\* Any data-flow graph over all operation kinds; reshapes are degenerate or
\* not.
InitRoot ==
  /\ kind \in [Nodes -> OpNames]
  /\ degenerate \in [Nodes -> BOOLEAN]
  /\ \A n \in Nodes :
       kind[n] \notin {"collapse_shape", "expand_shape"} => ~degenerate[n]
  /\ users \in UserLists
  /\ labels = [n \in Nodes |-> {}]
  /\ parent = [n \in Nodes |-> "func"]
  /\ rank = [n \in Nodes |-> 1]
  /\ extent = [n \in Nodes |-> 0]
  /\ tileSize = 1
  /\ maxIterations = 1
  /\ InitControl
  /\ runs = 1

\* findRootMap called on the map node op.
FindRoot(op) ==
  /\ isMap(op)
  /\ last' = Application(op, findRootMap(op), FALSE, <<>>, "root")
  /\ walk' = findRootPath(op)
  /\ UNCHANGED <<kind, degenerate, users, labels, parent, rank, extent, loops,
                 driver, tileSize, maxIterations, pc, runs, run, iteration,
                 worklist, changed, rewrote, passFailed, input, out1>>

NextRoot == \E op \in Nodes : FindRoot(op)

SpecRoot == InitRoot /\ [][NextRoot]_vars

\* ------------------------------------------------------------ properties
\* A step in which the rewriter has applied the pattern to a map node.
PatternApplied ==
  pc = "rewrite" /\ pc' = "rewrite" /\ iteration' = iteration
    /\ worklist' # worklist

HasTransformed(g) ==
  \/ \E n \in Nodes : kTransformedLabel \in g.labels[n]
  \/ \E l \in g.loops : kTransformedLabel \in l.labels

\* C1: every application of the pattern reports success only if tiling and
\* fusion, peeling and the scalarization of the remainder all succeeded, and
\* an application that reports failure leaves the graph, labels included, as
\* it was before the application.
C1_FailureLeavesGraphUntouched ==
  [][PatternApplied =>
       /\ last'.result = "success" =>
            last'.invoked /\ driver'[last'.root] = "ok"
       /\ last'.result = "failure" => Graph' = Graph]_vars

\* C3: whenever the pass has returned, no map node and no loop of the
\* function carries the transformed label.
C3_NoTransformedLabelAtReturn ==
  pc = "done" => ~HasTransformed(Graph)

\* No map node of the function carried the transformed label before the
\* first run.
InputUnlabelled == \A n \in Nodes : kTransformedLabel \notin input[n]

\* g without the transformed labels of its map nodes.
WithoutTransformed(g) ==
  [g EXCEPT !.labels = [n \in Nodes |-> g.labels[n] \ {kTransformedLabel}]]

\* C2 as stated: a second run of the pass on the output of a first run
\* applies no rewrite, and its output equals the output of the first run.
C2_SecondRunChangesNothing ==
  run >= 2 => /\ ~rewrote
              /\ pc = "done" => Graph = out1.graph

\* C2 amended: on a function whose maps carry no transformed label, a second
\* run applies no rewrite and leaves loops and nesting as the first run left
\* them; its output equals the first run's output when the first run
\* converged, and differs from it only by the transformed labels the first
\* run left behind when it did not.
C2_SecondRunRewritesNothing ==
  (run >= 2 /\ InputUnlabelled) =>
     /\ ~rewrote
     /\ WithoutTransformed(Graph) = WithoutTransformed(out1.graph)
     /\ (pc = "done" /\ ~out1.failed) => Graph = out1.graph

\* A second run has finished on a function the first run has tiled.
C2_Witness ==
  /\ run = 2 /\ pc = "done" /\ InputUnlabelled
  /\ loops # {}
  /\ ~out1.failed
  /\ \E n \in Nodes : isMap(n) /\ ~inLoop(n)

\* The maps among the users of n.
UserMaps(n) == {users[n][i] : i \in 1..Len(users[n])} \cap MapNodes

\* C4: when the result of the candidate map is consumed by two or more other
\* nodes, findRootMap returns the candidate itself.
C4_FanOutKeepsCandidate ==
  (last.result = "root" /\ NumUserNodes(last.op) >= 2) => last.root = last.op

\* findRootMap has run on a map that feeds two other maps.
C4_Witness ==
  /\ last.result = "root"
  /\ NumUserNodes(last.op) >= 2
  /\ Cardinality(UserMaps(last.op)) >= 2

\* The root C5 describes: the last map on the longest forward path from cur
\* on which every node but the last is fusible and has exactly one consumer
\* node, however many operands of that node use the value.
RECURSIVE SingleConsumerRoot(_, _)
SingleConsumerRoot(cur, root) ==
  IF fuseFilterFn(cur) /\ NumUserNodes(cur) = 1
  THEN LET nxt == users[cur][1]
       IN  SingleConsumerRoot(nxt, IF isMap(nxt) THEN nxt ELSE root)
  ELSE root

\* C5: findRootMap returns the last map node on the maximal forward path of
\* fusible nodes that have exactly one consumer node each; it returns the
\* start when the start has no eligible successor.
C5_RootIsLastMapOfSingleConsumerPath ==
  last.result = "root" => last.root = SingleConsumerRoot(last.op, last.op)

\* C6: in every application of the pattern, the node handed to the tiling
\* driver as root, and cast to a map by the tile-size computation, is a map.
C6_DriverRootIsMap ==
  last.invoked => isMap(last.root)

\* The driver was handed a root other than the candidate, found by a walk
\* that went through a fill and ended on a node that is not a map.
C6_Witness ==
  /\ last.invoked
  /\ last.root # last.op
  /\ \E i \in 1..Len(walk) : kind[walk[i]] = "fill"
  /\ ~isMap(walk[Len(walk)])

\* C7: the tile-size vector computed for a root of rank R has R entries, all
\* 1 but the last, which is the configured inner tile size; it is empty for
\* R = 0.
C7_TileSizeVector ==
  last.invoked =>
    LET R == rank[last.root]
    IN /\ Len(last.tiles) = R
       /\ \A i \in 1..(R - 1) : last.tiles[i] = 1
       /\ R >= 1 => last.tiles[R] = tileSize
       /\ R = 0 => last.tiles = <<>>

\* Tile sizes were computed for a root of rank 3 with tile size 8.
C7_Witness ==
  last.invoked /\ rank[last.root] = 3 /\ tileSize = 8 /\ Len(last.tiles) = 3

\* The loops that stand for the root r.
LoopsOf(r) == {l \in loops : l.root = r}

\* The first index of every iteration of loop l.
IterStarts(l) == {i \in l.lo..(l.hi - 1) : (i - l.lo) % l.step = 0}

\* The indices the iteration of l that starts at i computes.
TileOf(l, i) ==
  i..((IF i + l.step <= l.hi THEN i + l.step ELSE l.hi) - 1)

\* The iterations of the loops of r that compute element e.
Computing(r, e) ==
  {it \in UNION {{<<l, i>> : i \in IterStarts(l)} : l \in LoopsOf(r)} :
     e \in TileOf(it[1], it[2])}

\* C8: after tiling, peeling and scalarization of a root whose inner
\* dimension has extent N, the main loop covers [0, T*(N div T)) in complete
\* tiles of width T, the remainder covers [T*(N div T), N) one element at a
\* time, and every element of [0, N) is computed exactly once.
C8_PeelingPartitionsIterationSpace ==
  \A r \in Nodes :
    (driver[r] = "ok" /\ LoopsOf(r) # {}) =>
      LET N == extent[r]
          T == tileSize
          split == T * (N \div T)
          mains == {l \in LoopsOf(r) : l.part = "main"}
          tails == {l \in LoopsOf(r) : l.part = "tail"}
      IN /\ Cardinality(mains) = 1
         /\ \A m \in mains :
              /\ m.lo = 0 /\ m.hi = split /\ m.step = T
              /\ \A i \in IterStarts(m) : Cardinality(TileOf(m, i)) = T
         /\ \A t \in tails : t.lo = split /\ t.hi = N /\ t.step = 1
         /\ (tails = {}) <=> (split = N)
         /\ \A e \in 0..(N - 1) : Cardinality(Computing(r, e)) = 1

\* Scenario A: extent 20 tiled by 8 in a rank-2 map, main loop over 0..15 and
\* scalarized remainder over 16..19.
C8_Witness ==
  /\ last.result = "success"
  /\ rank[last.root] = 2 /\ extent[last.root] = 20 /\ tileSize = 8
  /\ \E m \in LoopsOf(last.root) : m.part = "main" /\ m.hi = 16
  /\ \E t \in LoopsOf(last.root) : t.part = "tail" /\ t.lo = 16 /\ t.step = 1

\* C9: when the candidate carries the transformed label, or its parent is a
\* loop, or the root found for it carries the transformed label, the pattern
\* returns failure without invoking the tiling driver and leaves the graph
\* and all labels unchanged.
C9_NonMatchIsSilentSkip ==
  [][\A op \in Nodes :
       (PatternApplied /\ last'.op = op
          /\ (\/ hasLabel(op, kTransformedLabel)
              \/ inLoop(op)
              \/ hasLabel(findRootMap(op), kTransformedLabel)))
       => /\ last'.result = "failure"
          /\ ~last'.invoked
          /\ Graph' = Graph
          /\ driver' = driver]_vars

\* The pattern has skipped an unlabelled top-level candidate because the root
\* found for it, another map, carries the transformed label.
C9_Witness ==
  /\ last.result = "failure" /\ ~last.invoked
  /\ last.root # 0 /\ last.root # last.op
  /\ ~hasLabel(last.op, kTransformedLabel) /\ ~inLoop(last.op)
  /\ hasLabel(last.root, kTransformedLabel)

\* C10: the pass signals failure exactly when the greedy rewriter returns
\* without a fixed point within its iteration bound; the graph then keeps
\* every rewrite that landed; a converged run does not signal failure.
C10_PassFailsIffNoFixedPoint ==
  [][(pc = "rewrite" /\ pc' = "done") =>
       /\ passFailed' <=> (changed /\ iteration + 1 >= maxIterations)
       /\ passFailed' => (Graph' = Graph /\ loops # {})
       /\ ~changed => ~passFailed']_vars

\* The pass has signalled failure and the loops of a rewritten root are
\* still in the graph.
C10_Witness ==
  /\ pc = "done" /\ passFailed
  /\ \E l \in loops : l.part = "main" /\ inLoop(l.root)

\* The map nodes that sit in the loops of an already tiled fusion cluster.
TiledNodes == UNION {FusionCluster(l.root) : l \in loops}

\* A step in which the pattern has tiled the root it found.
PatternTiled ==
  PatternApplied /\ last'.invoked /\ driver'[last'.root] # "tile_fails"

\* C11: once a fusion cluster has been tiled, no later application of the
\* pattern tiles a node of that cluster again, a scan after the first changes
\* nothing, and the rewriter eventually returns.
C11_NoReprocessing ==
  /\ [][PatternTiled => FusionCluster(last'.root) \cap TiledNodes = {}]_vars
  /\ [](iteration >= 1 => ~changed)
  /\ <>(pc = "done")

\* The rewriter has returned after a second scan, in which it visited a
\* tiled root and a producer fused into that root's loop.
C11_Witness ==
  /\ pc = "done" /\ iteration = 1
  /\ \E l \in loops : Cardinality(FusionCluster(l.root) \cap MapNodes) >= 2

\* The map nodes of the chain that starts at cur: cur and every node reached
\* from it through fusible nodes that have exactly one consumer node each.
RECURSIVE ChainMaps(_)
ChainMaps(cur) ==
  (IF isMap(cur) THEN {cur} ELSE {}) \cup
  (IF fuseFilterFn(cur) /\ NumUserNodes(cur) = 1
   THEN ChainMaps(users[cur][1])
   ELSE {})

C12_SingleUseChains ==
  (last.result = "root" /\ \A n \in Nodes : Len(users[n]) = NumUserNodes(n)) =>
    /\ last.root = SingleConsumerRoot(last.op, last.op)
    /\ \A b \in ChainMaps(last.op) : findRootMap(b) = last.root

\* The loop l was produced by an application of the pattern that reported
\* success: tiling, peeling and the scalarization of the remainder all went
\* through for its root.
ProducedBySuccess(l) == driver[l.root] = "ok"

\* C13: a loop carries the perfectly-tiled-loop label if and only if it is the
\* main loop produced by an application that reported success; remainder
\* loops never carry it.
C13_PerfectlyTiledLabel ==
  \A l \in loops :
    (kPerfectlyTiledLoopLabel \in l.labels)
      <=> (l.part = "main" /\ ProducedBySuccess(l))

\* The part of C13 that does not depend on what the application reported.
C13_OnlyMainLoopsLabelled ==
  \A l \in loops : (kPerfectlyTiledLoopLabel \in l.labels) <=> l.part = "main"

\* C14: with tile size 1 every entry of the tile-size vector is 1, the main
\* loop of a tiled root covers its whole iteration space one element at a
\* time, and there is no peeled remainder.
C14_UnitTileIsScalarization ==
  (tileSize = 1 /\ last.invoked) =>
    /\ \A i \in 1..Len(last.tiles) : last.tiles[i] = 1
    /\ LoopsOf(last.root) # {} =>
         /\ \A l \in LoopsOf(last.root) :
              /\ l.part = "main" /\ l.lo = 0 /\ l.hi = extent[last.root]
              /\ l.step = 1
              /\ IterStarts(l) = 0..(extent[last.root] - 1)
              /\ \A i \in IterStarts(l) : TileOf(l, i) = {i}
         /\ Cardinality(LoopsOf(last.root)) = 1

\* A rank-3 map of inner extent 20 has been tiled with tile size 1.
C14_Witness ==
  /\ tileSize = 1 /\ last.result = "success"
  /\ rank[last.root] = 3 /\ extent[last.root] = 20
  /\ LoopsOf(last.root) # {}

\* C15: in every application of the pattern, the root handed to the tiling
\* driver is not a node whose parent, as the application found it, is a loop;
\* also when the root is not the candidate that was matched.
C15_DriverRootNotInLoop ==
  [][(PatternApplied /\ last'.invoked) => ~inLoop(last'.root)]_vars

\* The part of C15 that lines 51-54 establish: the candidate itself is not
\* nested in a loop when the driver is invoked.
C15_CandidateNotInLoop ==
  [][(PatternApplied /\ last'.invoked) => ~inLoop(last'.op)]_vars

\* The step in which runOnOperation, the rewriter having reached its fixed
\* point, walks the maps and returns.
CleanupStep == pc = "rewrite" /\ pc' = "done" /\ ~passFailed'

\* C16: the cleanup removes the transformed label from the map nodes and
\* changes nothing else: the graph, the loops with their labels, every other
\* label of a map and all labels of the other nodes stay as they were.
C16_CleanupFrame ==
  [][CleanupStep =>
       /\ \A n \in Nodes :
            labels'[n] = IF isMap(n) THEN labels[n] \ {kTransformedLabel}
                         ELSE labels[n]
       /\ kind' = kind /\ users' = users /\ parent' = parent
       /\ rank' = rank /\ extent' = extent
       /\ loops' = loops]_vars

\* After a cleanup: a labelled main loop, a fill that still carries
\* transformed, and a map that lost transformed and kept its other label.
C16_Witness ==
  /\ pc = "done" /\ ~passFailed
  /\ \E l \in loops : l.part = "main" /\ kPerfectlyTiledLoopLabel \in l.labels
  /\ \E n \in Nodes : ~isMap(n) /\ kTransformedLabel \in labels[n]
  /\ \E m \in MapNodes :
       /\ input[m] = {kTransformedLabel, kPerfectlyTiledLoopLabel}
       /\ labels[m] = {kPerfectlyTiledLoopLabel}

\* C17: on a graph whose consumers come after their producers the forward
\* walk of findRootMap ends after at most as many steps as there are nodes,
\* each step moves to a later node, and no node is visited twice.
C17_WalkTerminates ==
  last.result = "root" =>
    /\ Len(walk) - 1 <= NumNodes
    /\ \A i \in 1..(Len(walk) - 1) : walk[i] < walk[i + 1]
    /\ \A i, j \in 1..Len(walk) : walk[i] = walk[j] => i = j

\* A walk that went through every node of the graph.
C17_Witness ==
  /\ last.result = "root"
  /\ Len(walk) = NumNodes
  /\ last.root = NumNodes

\* C18: when the root handed to the tiling driver has rank 0, the tile-size
\* vector is empty and the application produces no loop and leaves the node,
\* like the rest of the function, as it was.
C18_RankZeroLeftUntiled ==
  [][(PatternApplied /\ last'.invoked /\ rank[last'.root] = 0) =>
       /\ last'.tiles = << >>
       /\ loops' = loops
       /\ labels' = labels /\ parent' = parent
       /\ kind' = kind /\ users' = users]_vars

\* The pattern has been applied to a rank-0 map whose root is the map it
\* feeds, and the function holds no loop.
C18_Witness ==
  /\ last.invoked /\ rank[last.root] = 0
  /\ last.root # last.op
  /\ pc = "rewrite" /\ loops = {}

====
